---- MODULE Spec2Model ----
(***************************************************************************)
(* Model of the gerador-times backend: the group / match / stats routes of *)
(* src/server.js (bearer-token protected), the group routes of the         *)
(* unprotected server file src/unnamed/part_000, and the standings         *)
(* aggregator calculateTeamStats.                                          *)
(***************************************************************************)
EXTENDS Integers, Sequences, FiniteSets, TLC

\* ------------------------------------------------------------------ bounds
MaxMatches == 2     \* longest match list handed to calculateTeamStats
MaxGoals == 3       \* goals scored over a whole match list
MaxDocs == 2        \* documents the store ever creates (and the _id values requests name)

\* ------------------------------------------------------- names and rosters
\* The player names of the model, listed in ascending UTF-16 code-unit order,
\* which is the order Array.prototype.sort() without a comparator sorts
\* strings by.  "constructor" is a name that is also a property of
\* Object.prototype.
NameOrder == <<"a", "b", "constructor">>

CodeUnitRank(s) == CHOOSE i \in DOMAIN NameOrder : NameOrder[i] = s

\* x sorts at or before y
CodeUnitLeq(x, y) == CodeUnitRank(x) <= CodeUnitRank(y)

\* The rosters (teamA / teamB arrays, in stored order) of the model: one
\* stored out of order, the same names in order, a single player, and a
\* roster whose key is "constructor".
Rosters ==
  { <<"a">>, <<"a", "b">>, <<"b", "a">>, <<"constructor">> }

Scores == 0 .. MaxGoals

\* A Match document, reduced to the fields calculateTeamStats reads.
MatchDocs == [teamA : Rosters, teamB : Rosters, scoreA : Scores, scoreB : Scores]

\* ------------------------------------------------ Array.prototype helpers
\* arr.sort(): ascending by code units; the array object itself is reordered
\* and returned, so the caller's array holds the result.
SortInsert(sorted, x) ==
  LET k == Cardinality({i \in DOMAIN sorted : CodeUnitLeq(sorted[i], x)})
  IN  SubSeq(sorted, 1, k) \o <<x>> \o SubSeq(sorted, k + 1, Len(sorted))

RECURSIVE SortPrefix(_, _)
SortPrefix(arr, n) ==
  IF n = 0 THEN <<>> ELSE SortInsert(SortPrefix(arr, n - 1), arr[n])

ArraySort(arr) == SortPrefix(arr, Len(arr))

\* arr.join(','): the elements concatenated, a comma between neighbours.
RECURSIVE Join(_)
Join(arr) ==
  IF Len(arr) = 0 THEN ""
  ELSE IF Len(arr) = 1 THEN arr[1]
  ELSE arr[1] \o "," \o Join(Tail(arr))

\* ------------------------------------------------------ calculateTeamStats
\* teamStats = {} is a plain object: a lookup teamStats[key] also finds the
\* properties inherited from Object.prototype, all of them truthy.
ObjectPrototypeKeys ==
  { "constructor", "__proto__", "hasOwnProperty", "isPrototypeOf",
    "propertyIsEnumerable", "toLocaleString", "toString", "valueOf",
    "__defineGetter__", "__defineSetter__", "__lookupGetter__",
    "__lookupSetter__" }

\* teamStats is modelled as the sequence of its own properties in insertion
\* order (the order Object.values lists keys that are no array indices; no
\* name of the model is one).  Each holds its key and the accumulator object.
\* `team` is a reference to the match's array, kept as <<match index, side>>.
OwnKey(teamStats, key) == \E i \in DOMAIN teamStats : teamStats[i].key = key

\* the truth value of teamStats[key]
Lookup(teamStats, key) == OwnKey(teamStats, key) \/ key \in ObjectPrototypeKeys

NewStat(key, ref) ==
  [key |-> key, team |-> ref, wins |-> 0, losses |-> 0, draws |-> 0,
   goalsFor |-> 0, goalsAgainst |-> 0, matches |-> 0]

\* if (!teamStats[key]) teamStats[key] = {team: ..., wins: 0, ...}
EnsureStat(teamStats, key, ref) ==
  IF Lookup(teamStats, key) THEN teamStats ELSE Append(teamStats, NewStat(key, ref))

\* teamStats[key].field += n.  When key is no own property the object found
\* is the inherited one and the write lands there, outside teamStats.
AddTo(teamStats, key, field, n) ==
  [i \in DOMAIN teamStats |->
     IF teamStats[i].key = key
     THEN [teamStats[i] EXCEPT ![field] = @ + n]
     ELSE teamStats[i]]

UpdateMatchesOnlyA(teamStats, keyA, keyB) == AddTo(teamStats, keyA, "matches", 1)

UpdateMatches(teamStats, keyA, keyB) ==
  AddTo(AddTo(teamStats, keyA, "matches", 1), keyB, "matches", 1)

UpdateGoalsSwapped(teamStats, keyA, keyB, match) ==
  LET s1 == AddTo(teamStats, keyA, "goalsFor", match.scoreA)
      s2 == AddTo(s1, keyA, "goalsAgainst", match.scoreB)
      s3 == AddTo(s2, keyB, "goalsFor", match.scoreA)
  IN  AddTo(s3, keyB, "goalsAgainst", match.scoreB)

UpdateGoals(teamStats, keyA, keyB, match) ==
  LET s1 == AddTo(teamStats, keyA, "goalsFor", match.scoreA)
      s2 == AddTo(s1, keyA, "goalsAgainst", match.scoreB)
      s3 == AddTo(s2, keyB, "goalsFor", match.scoreB)
  IN  AddTo(s3, keyB, "goalsAgainst", match.scoreA)

UpdateResult(teamStats, keyA, keyB, match) ==
  IF match.scoreA > match.scoreB
  THEN AddTo(AddTo(teamStats, keyA, "wins", 1), keyB, "losses", 1)
  ELSE IF match.scoreA < match.scoreB
  THEN AddTo(AddTo(teamStats, keyA, "losses", 1), keyB, "wins", 1)
  ELSE AddTo(AddTo(teamStats, keyA, "draws", 1), keyB, "draws", 1)

\* One call of the forEach callback, on matches[i].  acc holds the match
\* array (docs) and teamStats as they are before the call.
ForEachBody(acc, i) ==
  LET sortedA == ArraySort(acc.docs[i].teamA)
      docsA   == [acc.docs EXCEPT ![i].teamA = sortedA]
      teamAKey == Join(sortedA)
      sortedB == ArraySort(docsA[i].teamB)
      docsB   == [docsA EXCEPT ![i].teamB = sortedB]
      teamBKey == Join(sortedB)
      match   == docsB[i]
      t1 == EnsureStat(acc.teamStats, teamAKey, <<i, "teamA">>)
      t2 == EnsureStat(t1, teamBKey, <<i, "teamB">>)
      t3 == UpdateMatches(t2, teamAKey, teamBKey)
      t4 == UpdateGoals(t3, teamAKey, teamBKey, match)
      t5 == UpdateResult(t4, teamAKey, teamBKey, match)
  IN  [docs |-> docsB, teamStats |-> t5]

RECURSIVE ForEach(_, _)
ForEach(docs, n) ==
  IF n = 0 THEN [docs |-> docs, teamStats |-> <<>>]
  ELSE ForEachBody(ForEach(docs, n - 1), n)

DerivedFieldsNoDraws(stat, docs) ==
  [team |-> docs[stat.team[1]][stat.team[2]],
   wins |-> stat.wins, losses |-> stat.losses, draws |-> stat.draws,
   goalsFor |-> stat.goalsFor, goalsAgainst |-> stat.goalsAgainst,
   matches |-> stat.matches,
   points |-> stat.wins * 3,
   goalDifference |-> stat.goalsFor - stat.goalsAgainst]

\* ({...stat, points, goalDifference}); team is read through the reference
DerivedFields(stat, docs) ==
  [team |-> docs[stat.team[1]][stat.team[2]],
   wins |-> stat.wins, losses |-> stat.losses, draws |-> stat.draws,
   goalsFor |-> stat.goalsFor, goalsAgainst |-> stat.goalsAgainst,
   matches |-> stat.matches,
   points |-> (stat.wins * 3) + stat.draws,
   goalDifference |-> stat.goalsFor - stat.goalsAgainst]

CompareByPointsOnly(a, b) == b.points - a.points

\* (a, b) => b.points - a.points || b.goalDifference - a.goalDifference
Compare(a, b) ==
  IF b.points - a.points # 0 THEN b.points - a.points
  ELSE b.goalDifference - a.goalDifference

\* .sort(compare): stable; x goes behind the elements that do not sort after it
StatInsert(sorted, x) ==
  LET k == Cardinality({i \in DOMAIN sorted : Compare(sorted[i], x) <= 0})
  IN  SubSeq(sorted, 1, k) \o <<x>> \o SubSeq(sorted, k + 1, Len(sorted))

RECURSIVE StatSortPrefix(_, _)
StatSortPrefix(arr, n) ==
  IF n = 0 THEN <<>> ELSE StatInsert(StatSortPrefix(arr, n - 1), arr[n])

SortStats(arr) == StatSortPrefix(arr, Len(arr))

\* The call: what it returns and what it leaves in the caller's match array.
calculateTeamStats(matches) ==
  LET acc    == ForEach(matches, Len(matches))
      values == [i \in DOMAIN acc.teamStats |-> DerivedFields(acc.teamStats[i], acc.docs)]
  IN  [stats |-> SortStats(values), docs |-> acc.docs]

\* =========================================================== the servers
\* What JavaScript calls undefined: a missing header, body field or claim.
Absent == "undefined"

Users == {"u1", "u2"}

\* _id values the model's requests name and the store hands out, in order
DocIds == 1 .. MaxDocs

\* Bearer tokens: one jwt.decode cannot decode, one for each user, and a
\* well-formed one whose payload has no sub claim.
Tokens == {"garbage", "jwt.u1", "jwt.u2", "jwt.nosub"}

\* The Authorization header as authHeader.split(' ') sees it; <<>> is a
\* request without the header.
Headers == {<<>>, <<"Bearer">>} \cup {<<"Bearer", t>> : t \in Tokens}

\* jwt.decode(token, {complete: true}): null for what is no JWT, else the
\* decoded token; the signature is not verified.
jwtDecode(token) ==
  IF token = "jwt.u1" THEN [decoded |-> TRUE, sub |-> "u1"]
  ELSE IF token = "jwt.u2" THEN [decoded |-> TRUE, sub |-> "u2"]
  ELSE IF token = "jwt.nosub" THEN [decoded |-> TRUE, sub |-> Absent]
  ELSE [decoded |-> FALSE, sub |-> Absent]

authenticateTokenNoTokenCheck(authHeader) ==
  LET token   == IF Len(authHeader) >= 2 THEN authHeader[2] ELSE Absent
      decoded == jwtDecode(token)
  IN  IF ~decoded.decoded
      THEN [next |-> FALSE, status |-> 403, sub |-> Absent]
      ELSE [next |-> TRUE, status |-> 0, sub |-> decoded.sub]

\* The middleware: either it answers (401, 403) and the route handler is not
\* called, or it sets req.user and calls next().
authenticateToken(authHeader) ==
  LET token == IF Len(authHeader) >= 2 THEN authHeader[2] ELSE Absent
  IN  IF token \in {Absent, ""}
      THEN [next |-> FALSE, status |-> 401, sub |-> Absent]
      ELSE LET decoded == jwtDecode(token)
           IN  IF ~decoded.decoded
               THEN [next |-> FALSE, status |-> 403, sub |-> Absent]
               ELSE [next |-> TRUE, status |-> 0, sub |-> decoded.sub]

\* Request bodies.  A field that is Absent is not in the JSON.
GroupNames == {"g1", "g2"}

\* a members array
Members == <<[name |-> "a", active |-> TRUE]>>

\* body.members is <<>> when the field is absent and <<array>> when present.
\* A body names no owner or names u1: its sender's own id or another user's.
GroupBodies ==
  [name : GroupNames \cup {Absent}, members : {<<>>, <<Members>>},
   userId : {Absent, "u1"}]

\* -1 is a score the schema's min: 0 rejects
MatchBodies ==
  [teamA : {<<"b", "a">>}, teamB : {<<"a">>},
   scoreA : {-1, 1}, scoreB : {0}, userId : {Absent, "u1"}]

\* x || y for the values of the model
OrElse(x, y) == IF x \in {Absent, ""} THEN y ELSE x

\* A query filter {userId: v}.  With v undefined the filter either matches
\* the documents without a userId (there are none: the field is required) or,
\* when the undefined key is dropped from the filter, every document; which
\* of the two depends on the mongoose version, so both are behaviours.
MatchesUserId(doc, v, dropUndefined) ==
  IF v = Absent THEN dropUndefined ELSE doc.userId = v

\* the behaviours of a filter on userId = v that a request can meet
DropChoices(v) == IF v = Absent THEN BOOLEAN ELSE {FALSE}

\* The documents of a collection in _id order, the order find() returns them in
RECURSIVE ById(_, _)
ById(coll, n) ==
  IF n = 0 THEN <<>>
  ELSE LET rest == ById(coll, n - 1)
           here == {d \in coll : d.id = n}
       IN  IF here = {} THEN rest ELSE rest \o <<CHOOSE d \in here : TRUE>>

\* .sort({date: -1}): newest first; date defaults to the time of creation
Reverse(s) == [i \in DOMAIN s |-> s[Len(s) + 1 - i]]

\* ------------------------------------------------------------------- state
VARIABLES
  Group,      \* the Group collection: a set of documents
  Match,      \* the Match collection: a set of documents
  nextId,     \* the next _id the store hands out
  res,        \* the last request served and the response to it
  input,      \* the match list as it was when calculateTeamStats was called
  matches,    \* the caller's match array, as it is now
  stats,      \* the value calculateTeamStats returned
  pc          \* "ready" before the call, "done" after it

vars == <<Group, Match, nextId, res, input, matches, stats, pc>>

store == <<Group, Match, nextId>>

calc == <<input, matches, stats, pc>>

NoResponse ==
  [app |-> "none", route |-> "none", header |-> <<>>, user |-> Absent,
   status |-> 0, read |-> {}, body |-> <<>>, stats |-> <<>>]

\* res.json(...) / res.status(...).json(...)
Respond(app, route, header, user, status, read, body, st) ==
  res' = [app |-> app, route |-> route, header |-> header, user |-> user,
          status |-> status, read |-> read, body |-> body, stats |-> st]

\* Both collections empty, no request served, calculateTeamStats not called.
Init ==
  /\ Group = {}
  /\ Match = {}
  /\ nextId = 1
  /\ res = NoResponse
  /\ input = <<>>
  /\ matches = <<>>
  /\ stats = <<>>
  /\ pc = "ready"

\* ------------------------------------------------ calculateTeamStats alone
\* the goals of a match list, which the model caps
RECURSIVE TotalGoals(_)
TotalGoals(list) ==
  IF list = <<>> THEN 0
  ELSE list[1].scoreA + list[1].scoreB + TotalGoals(Tail(list))

\* the caller's list grows by one match
AddMatch ==
  /\ pc = "ready"
  /\ Len(matches) < MaxMatches
  /\ \E m \in MatchDocs :
       /\ TotalGoals(input) + m.scoreA + m.scoreB <= MaxGoals
       /\ matches' = Append(matches, m)
       /\ input' = Append(input, m)
  /\ UNCHANGED <<stats, pc, store, res>>

CallCalculateTeamStats ==
  /\ pc = "ready"
  /\ LET r == calculateTeamStats(matches)
     IN  /\ stats' = r.stats
         /\ matches' = r.docs
  /\ pc' = "done"
  /\ UNCHANGED <<input, store, res>>

NextStats == AddMatch \/ CallCalculateTeamStats

SpecStats == Init /\ [][NextStats]_vars

\* ------------------------------------------------------ src/server.js
\* the middleware answered: the handler does not run
Rejected(route, header, auth) ==
  /\ Respond("server.js", route, header, auth.sub, auth.status, {}, <<>>, <<>>)
  /\ UNCHANGED store

\* new Group(data), with the schema's default for members
NewGroup(id, data) ==
  [id |-> id, name |-> data.name,
   members |-> IF data.members = <<>> THEN <<>> ELSE data.members[1],
   userId |-> data.userId]

\* new Match(data); date defaults to the time of creation, which _id orders
NewMatch(id, data) ==
  [id |-> id, teamA |-> data.teamA, teamB |-> data.teamB,
   scoreA |-> data.scoreA, scoreB |-> data.scoreB, userId |-> data.userId]

\* app.get('/api/groups', authenticateToken, ...)
GetGroups ==
  /\ \E header \in Headers :
       LET auth == authenticateToken(header)
       IN  IF ~auth.next THEN Rejected("GET /api/groups", header, auth)
           ELSE \E dropUndefined \in DropChoices(auth.sub) :
                  LET groups == {d \in Group : MatchesUserId(d, auth.sub, dropUndefined)}
                  IN  /\ Respond("server.js", "GET /api/groups", header, auth.sub, 200,
                                 groups, ById(groups, MaxDocs), <<>>)
                      /\ UNCHANGED store
  /\ UNCHANGED calc

\* app.post('/api/groups', authenticateToken, ...)
PostGroups ==
  /\ \E header \in Headers :
       LET auth == authenticateToken(header)
       IN  IF ~auth.next THEN Rejected("POST /api/groups", header, auth)
           ELSE \E body \in GroupBodies :
                  LET groupData == [body EXCEPT !.userId = auth.sub]
                  IN  IF groupData.name = Absent \/ groupData.userId = Absent
                      THEN \* save() fails the schema's required fields
                           /\ Respond("server.js", "POST /api/groups", header, auth.sub,
                                      400, {}, <<>>, <<>>)
                           /\ UNCHANGED store
                      ELSE /\ nextId <= MaxDocs
                           /\ LET group == NewGroup(nextId, groupData)
                              IN  /\ Group' = Group \cup {group}
                                  /\ Respond("server.js", "POST /api/groups", header,
                                             auth.sub, 201, {}, <<group>>, <<>>)
                           /\ nextId' = nextId + 1
                           /\ UNCHANGED Match
  /\ UNCHANGED calc

\* app.put('/api/groups/:id', authenticateToken, ...)
PutGroup ==
  /\ \E header \in Headers :
       LET auth == authenticateToken(header)
       IN  IF ~auth.next THEN Rejected("PUT /api/groups/:id", header, auth)
           ELSE \E id \in DocIds, body \in GroupBodies,
                   dropUndefined \in DropChoices(auth.sub) :
                  LET found == {d \in Group :
                                  d.id = id /\ MatchesUserId(d, auth.sub, dropUndefined)}
                  IN  IF found = {}
                      THEN /\ Respond("server.js", "PUT /api/groups/:id", header,
                                      auth.sub, 404, {}, <<>>, <<>>)
                           /\ UNCHANGED store
                      ELSE LET group   == CHOOSE d \in found : TRUE
                               updated == [group EXCEPT
                                             !.name = OrElse(body.name, @),
                                             !.members = IF body.members = <<>>
                                                         THEN @ ELSE body.members[1]]
                           IN  /\ Group' = (Group \ {group}) \cup {updated}
                               /\ Respond("server.js", "PUT /api/groups/:id", header,
                                          auth.sub, 200, {group}, <<updated>>, <<>>)
                               /\ UNCHANGED <<Match, nextId>>
  /\ UNCHANGED calc

\* app.delete('/api/groups/:id', authenticateToken, ...)
DeleteGroup ==
  /\ \E header \in Headers :
       LET auth == authenticateToken(header)
       IN  IF ~auth.next THEN Rejected("DELETE /api/groups/:id", header, auth)
           ELSE \E id \in DocIds, dropUndefined \in DropChoices(auth.sub) :
                  LET found == {d \in Group :
                                  d.id = id /\ MatchesUserId(d, auth.sub, dropUndefined)}
                  IN  IF found = {}
                      THEN /\ Respond("server.js", "DELETE /api/groups/:id", header,
                                      auth.sub, 404, {}, <<>>, <<>>)
                           /\ UNCHANGED store
                      ELSE /\ Group' = Group \ found
                           /\ Respond("server.js", "DELETE /api/groups/:id", header,
                                      auth.sub, 200, found, <<>>, <<>>)
                           /\ UNCHANGED <<Match, nextId>>
  /\ UNCHANGED calc

\* app.get('/api/matches', authenticateToken, ...)
GetMatches ==
  /\ \E header \in Headers :
       LET auth == authenticateToken(header)
       IN  IF ~auth.next THEN Rejected("GET /api/matches", header, auth)
           ELSE \E dropUndefined \in DropChoices(auth.sub) :
                  LET found == {d \in Match : MatchesUserId(d, auth.sub, dropUndefined)}
                  IN  /\ Respond("server.js", "GET /api/matches", header, auth.sub, 200,
                                 found, Reverse(ById(found, MaxDocs)), <<>>)
                      /\ UNCHANGED store
  /\ UNCHANGED calc

\* app.post('/api/matches', authenticateToken, ...)
PostMatches ==
  /\ \E header \in Headers :
       LET auth == authenticateToken(header)
       IN  IF ~auth.next THEN Rejected("POST /api/matches", header, auth)
           ELSE \E body \in MatchBodies :
                  LET matchData == [body EXCEPT !.userId = auth.sub]
                  IN  IF \/ matchData.userId = Absent
                         \/ matchData.scoreA < 0
                         \/ matchData.scoreB < 0
                      THEN \* save() fails the schema's required / min: 0
                           /\ Respond("server.js", "POST /api/matches", header, auth.sub,
                                      400, {}, <<>>, <<>>)
                           /\ UNCHANGED store
                      ELSE /\ nextId <= MaxDocs
                           /\ LET match == NewMatch(nextId, matchData)
                              IN  /\ Match' = Match \cup {match}
                                  /\ Respond("server.js", "POST /api/matches", header,
                                             auth.sub, 201, {}, <<match>>, <<>>)
                           /\ nextId' = nextId + 1
                           /\ UNCHANGED Group
  /\ UNCHANGED calc

\* app.get('/api/stats', authenticateToken, ...).  The documents found are
\* sorted in memory by calculateTeamStats and never saved.
GetStats ==
  /\ \E header \in Headers :
       LET auth == authenticateToken(header)
       IN  IF ~auth.next THEN Rejected("GET /api/stats", header, auth)
           ELSE \E dropUndefined \in DropChoices(auth.sub) :
                  LET found == {d \in Match : MatchesUserId(d, auth.sub, dropUndefined)}
                      r     == calculateTeamStats(ById(found, MaxDocs))
                  IN  /\ Respond("server.js", "GET /api/stats", header, auth.sub, 200,
                                 found, <<>>, r.stats)
                      /\ UNCHANGED store
  /\ UNCHANGED calc

Next ==
  \/ GetGroups
  \/ PostGroups
  \/ PutGroup
  \/ DeleteGroup
  \/ GetMatches
  \/ PostMatches
  \/ GetStats

Spec == Init /\ [][Next]_vars

\* ------------------------------------------------- src/unnamed/part_000
\* The same group routes without the middleware.  A request names a user
\* only by the userId it carries: in the query (GET) or in the body (POST,
\* PUT); DELETE carries none.

\* app.get('/api/groups', ...): const { userId } = req.query.  The requests
\* of the model carry the query parameter.
GetGroupsOpen ==
  /\ \E userId \in Users :
       LET groups == {d \in Group : d.userId = userId}
       IN  Respond("part_000", "GET /api/groups", <<>>, userId, 200,
                   groups, ById(groups, MaxDocs), <<>>)
  /\ UNCHANGED <<store, calc>>

\* app.post('/api/groups', ...): new Group(req.body)
PostGroupsOpen ==
  /\ \E body \in GroupBodies :
       IF body.name = Absent \/ body.userId = Absent
       THEN /\ Respond("part_000", "POST /api/groups", <<>>, body.userId, 400,
                       {}, <<>>, <<>>)
            /\ UNCHANGED store
       ELSE /\ nextId <= MaxDocs
            /\ LET group == NewGroup(nextId, body)
               IN  /\ Group' = Group \cup {group}
                   /\ Respond("part_000", "POST /api/groups", <<>>, body.userId, 201,
                              {}, <<group>>, <<>>)
            /\ nextId' = nextId + 1
            /\ UNCHANGED Match
  /\ UNCHANGED calc

\* app.put('/api/groups/:id', ...): Group.findByIdAndUpdate(id, req.body, {new: true})
PutGroupOpen ==
  /\ \E id \in DocIds, body \in GroupBodies :
       LET found == {d \in Group : d.id = id}
       IN  IF found = {}
           THEN /\ Respond("part_000", "PUT /api/groups/:id", <<>>, body.userId, 404,
                           {}, <<>>, <<>>)
                /\ UNCHANGED store
           ELSE LET group   == CHOOSE d \in found : TRUE
                    updated == [group EXCEPT
                                  !.name = IF body.name = Absent THEN @ ELSE body.name,
                                  !.members = IF body.members = <<>>
                                              THEN @ ELSE body.members[1],
                                  !.userId = IF body.userId = Absent
                                             THEN @ ELSE body.userId]
                IN  /\ Group' = (Group \ {group}) \cup {updated}
                    /\ Respond("part_000", "PUT /api/groups/:id", <<>>, body.userId,
                               200, {group}, <<updated>>, <<>>)
                    /\ UNCHANGED <<Match, nextId>>
  /\ UNCHANGED calc

\* app.delete('/api/groups/:id', ...): Group.findByIdAndDelete(id)
DeleteGroupOpen ==
  /\ \E id \in DocIds :
       LET found == {d \in Group : d.id = id}
       IN  IF found = {}
           THEN /\ Respond("part_000", "DELETE /api/groups/:id", <<>>, Absent, 404,
                           {}, <<>>, <<>>)
                /\ UNCHANGED store
           ELSE /\ Group' = Group \ found
                /\ Respond("part_000", "DELETE /api/groups/:id", <<>>, Absent, 200,
                           found, <<>>, <<>>)
                /\ UNCHANGED <<Match, nextId>>
  /\ UNCHANGED calc

NextOpen ==
  \/ GetGroupsOpen
  \/ PostGroupsOpen
  \/ PutGroupOpen
  \/ DeleteGroupOpen

SpecOpen == Init /\ [][NextOpen]_vars

\* --------------------------------------------- the claims about the routes
\* the documents a step removed or replaced, and those it added or wrote
Gone == (Group \ Group') \cup (Match \ Match')

Written == (Group' \ Group) \cup (Match' \ Match)

\* C1: every stored record has one owner, and a request of user u is handed,
\* and changes or deletes, only records that u owns; a record it creates or
\* writes is owned by u, whatever owner the body names.
C1_OwnerIsolation ==
  [][ /\ \A d \in Group' \cup Match' : d.userId \in Users
      /\ \A d \in res'.read : d.userId = res'.user
      /\ \A i \in DOMAIN res'.body : res'.body[i].userId = res'.user
      /\ \A d \in Gone \cup Written : d.userId = res'.user ]_vars

NoBearerToken(header) == Len(header) < 2

UndecodableToken(header) == Len(header) >= 2 /\ ~jwtDecode(header[2]).decoded

\* C10: a request to a protected route without a bearer token is answered
\* 401, one whose token cannot be decoded 403; either way no record is read
\* or returned and the store is left as it was.
C10_RejectedUntouched ==
  [][ (NoBearerToken(res'.header) \/ UndecodableToken(res'.header)) =>
        /\ NoBearerToken(res'.header) => res'.status = 401
        /\ UndecodableToken(res'.header) => res'.status = 403
        /\ res'.read = {}
        /\ res'.body = <<>>
        /\ res'.stats = <<>>
        /\ store' = store ]_vars

\* a DELETE of a stored group, by its _id, was refused for its token
C10_Witness ==
  /\ res.route = "DELETE /api/groups/:id"
  /\ res.status = 403
  /\ UndecodableToken(res.header)
  /\ Group # {}
  /\ Match # {}

\* ------------------------------------- the claims about calculateTeamStats
\* The team-identity key of a roster: its names sorted and comma-joined.
KeyOf(roster) == Join(ArraySort(roster))

Sides == {"teamA", "teamB"}

\* the keys that occur as teamA or teamB in the list the call was given
InputKeys == {KeyOf(input[i][s]) : i \in DOMAIN input, s \in Sides}

StatKeys == {KeyOf(stats[j].team) : j \in DOMAIN stats}

\* the match sides <<i, s>> of the input on which key k plays
SidesOf(k) == {p \in (DOMAIN input) \X Sides : KeyOf(input[p[1]][p[2]]) = k}

\* the matches of the input in which key k plays
MatchesOf(k) == {i \in DOMAIN input : \E s \in Sides : KeyOf(input[i][s]) = k}

OwnScore(p) == IF p[2] = "teamA" THEN input[p[1]].scoreA ELSE input[p[1]].scoreB

OtherScore(p) == IF p[2] = "teamA" THEN input[p[1]].scoreB ELSE input[p[1]].scoreA

RECURSIVE SumOver(_, _)
SumOver(S, fn) ==
  IF S = {} THEN 0
  ELSE LET x == CHOOSE y \in S : TRUE IN fn[x] + SumOver(S \ {x}, fn)

AllSides == (DOMAIN input) \X Sides

\* C2: after the call the output holds exactly one entry per distinct key of
\* the input: as many entries as keys, and the entries' keys are those keys.
C2_OneEntryPerKey ==
  pc = "done" =>
    /\ Len(stats) = Cardinality(InputKeys)
    /\ StatKeys = InputKeys

\* C3 as claimed: an entry's matches is the number of matches its key
\* appears in, and wins + losses + draws = matches.
C3_MatchesPerMatch ==
  pc = "done" =>
    \A j \in DOMAIN stats :
      /\ stats[j].matches = Cardinality(MatchesOf(KeyOf(stats[j].team)))
      /\ stats[j].wins + stats[j].losses + stats[j].draws = stats[j].matches

\* C3 as amended: an entry's matches is the number of match sides (teamA or
\* teamB) its key occupies, so a match with the same key on both sides counts
\* twice; and wins + losses + draws = matches.
C3_MatchesPerSide ==
  pc = "done" =>
    \A j \in DOMAIN stats :
      /\ stats[j].matches = Cardinality(SidesOf(KeyOf(stats[j].team)))
      /\ stats[j].wins + stats[j].losses + stats[j].draws = stats[j].matches

\* a match with one key on both sides has been folded into an entry
C3_Witness ==
  /\ pc = "done"
  /\ \E j \in DOMAIN stats, i \in DOMAIN input :
       /\ KeyOf(input[i].teamA) = KeyOf(stats[j].team)
       /\ KeyOf(input[i].teamB) = KeyOf(stats[j].team)
       /\ stats[j].matches = 3

\* C4: every entry equals the reference fold over the sides its key plays:
\* goalsFor sums the own scores, goalsAgainst the opponents' scores, a side
\* with the strictly higher score is a win, with the strictly lower one a
\* loss, and with an equal score a draw.
C4_ReferenceFold ==
  pc = "done" =>
    \A j \in DOMAIN stats :
      LET mine == SidesOf(KeyOf(stats[j].team))
      IN  /\ stats[j].goalsFor = SumOver(mine, [p \in AllSides |-> OwnScore(p)])
          /\ stats[j].goalsAgainst = SumOver(mine, [p \in AllSides |-> OtherScore(p)])
          /\ stats[j].wins = Cardinality({p \in mine : OwnScore(p) > OtherScore(p)})
          /\ stats[j].losses = Cardinality({p \in mine : OwnScore(p) < OtherScore(p)})
          /\ stats[j].draws = Cardinality({p \in mine : OwnScore(p) = OtherScore(p)})

\* an entry that won one match and drew another, against a second entry
C4_Witness ==
  /\ pc = "done"
  /\ Len(stats) = 2
  /\ \E j \in DOMAIN stats :
       /\ stats[j].wins = 1
       /\ stats[j].draws = 1
       /\ stats[j].goalsFor = 2
       /\ stats[j].goalsAgainst = 1

\* C5: every entry has points = 3 * wins + draws and
\* goalDifference = goalsFor - goalsAgainst, over its final totals.
C5_DerivedFields ==
  pc = "done" =>
    \A j \in DOMAIN stats :
      /\ stats[j].points = 3 * stats[j].wins + stats[j].draws
      /\ stats[j].goalDifference = stats[j].goalsFor - stats[j].goalsAgainst

\* an entry with a win and a draw, and one with a negative goal difference
C5_Witness ==
  /\ pc = "done"
  /\ \E j \in DOMAIN stats : stats[j].wins = 1 /\ stats[j].draws = 1 /\ stats[j].points = 4
  /\ \E j \in DOMAIN stats : stats[j].goalDifference < 0

\* C6: the goalsFor of all entries sum to the goalsAgainst of all entries.
C6_GoalsConserved ==
  pc = "done" =>
    SumOver(DOMAIN stats, [j \in DOMAIN stats |-> stats[j].goalsFor])
      = SumOver(DOMAIN stats, [j \in DOMAIN stats |-> stats[j].goalsAgainst])

\* C7: the output is in descending order of points, equal points in
\* descending order of goalDifference.
C7_Sorted ==
  pc = "done" =>
    \A j \in 1 .. (Len(stats) - 1) :
      \/ stats[j].points > stats[j + 1].points
      \/ /\ stats[j].points = stats[j + 1].points
         /\ stats[j].goalDifference >= stats[j + 1].goalDifference

\* two entries that tie on points and differ in goalDifference, the second
\* of them the one the fold created first
C7_Witness ==
  /\ pc = "done"
  /\ Len(stats) = 2
  /\ stats[1].points = stats[2].points
  /\ stats[1].points > 0
  /\ stats[1].goalDifference > stats[2].goalDifference
  /\ KeyOf(stats[2].team) = KeyOf(input[1].teamA)

\* the side of the input that first (in fold order) holds key k
FirstSideOf(k) ==
  CHOOSE p \in SidesOf(k) :
    \A q \in SidesOf(k) :
      \/ p[1] < q[1]
      \/ p[1] = q[1] /\ (p[2] = "teamA" \/ q[2] = "teamB")

\* C8: an entry's team is the roster in the order the first match that
\* references its key stores it.
C8_TeamAsStored ==
  pc = "done" =>
    \A j \in DOMAIN stats :
      LET p == FirstSideOf(KeyOf(stats[j].team))
      IN  stats[j].team = input[p[1]][p[2]]

\* C9: the call leaves the caller's match list as it was.
C9_InputUnchanged == pc = "done" => matches = input

====
